---- MODULE Spec2Model ----
(***************************************************************************)
(* Authentication and credential lifecycle of the mentorship backend:      *)
(* the handlers of controller/Auth.js and controller/profile.js running    *)
(* as concurrent requests against the Auth collection (models/authSchema). *)
(*                                                                         *)
(* Strings that the code trims, lowercases or matches against a regular    *)
(* expression are sequences of one-character strings.                      *)
(***************************************************************************)
EXTENDS Integers, Sequences, FiniteSets, TLC

\* ------------------------------------------------------------------ bounds
MaxReq == 3          \* requests handled in one behaviour
MaxValReq == 1       \* requests of the behaviours that range over all request bodies
MaxGuardReq == 2     \* requests of the behaviours that go through the guard
MaxDays == 4         \* days the clock runs in the behaviours where time passes

\* --------------------------------------------------------------- constants
SALT_ROUNDS == 12
TOKEN_EXPIRY == <<"3", "d">>
COOKIE_EXPIRY == 3 * 24 * 60 * 60 * 1000
ROLES == [USER |-> "user", ADMIN |-> "admin", MENTOR |-> "mentor"]
SchemaRoleEnum == {"admin", "mentor", "mentee"}
Undefined == "<undefined>"

\* ----------------------------------------------------------------- strings
UpperCase == <<"A","B","C","D","E","F","G","H","I","J","K","L","M",
               "N","O","P","Q","R","S","T","U","V","W","X","Y","Z">>
LowerCase == <<"a","b","c","d","e","f","g","h","i","j","k","l","m",
               "n","o","p","q","r","s","t","u","v","w","x","y","z">>
WhiteSpace == {" "}

SetMin(S) == CHOOSE x \in S : \A y \in S : x <= y
SetMax(S) == CHOOSE x \in S : \A y \in S : x >= y

toLowerCaseChar(c) ==
  IF \E i \in 1..26 : UpperCase[i] = c
  THEN LowerCase[CHOOSE i \in 1..26 : UpperCase[i] = c]
  ELSE c

toLowerCase(s) == [i \in 1..Len(s) |-> toLowerCaseChar(s[i])]

trim(s) ==
  LET keep == {i \in 1..Len(s) : s[i] \notin WhiteSpace}
  IN IF keep = {} THEN <<>> ELSE SubSeq(s, SetMin(keep), SetMax(keep))

\* [^\s@]+
NoSpaceAt(s, lo, hi) ==
  /\ lo <= hi
  /\ \A k \in lo..hi : s[k] \notin WhiteSpace /\ s[k] # "@"

\* /^[^\s@]+@[^\s@]+\.[^\s@]+$/
validateEmail(email) ==
  \E i, j \in 1..Len(email) :
    /\ i < j
    /\ email[i] = "@"
    /\ email[j] = "."
    /\ NoSpaceAt(email, 1, i - 1)
    /\ NoSpaceAt(email, i + 1, j - 1)
    /\ NoSpaceAt(email, j + 1, Len(email))

\* a request value: a JSON string (sequence of characters) or a JSON number
Str(s) == [type |-> "string", val |-> s]
Num(n) == [type |-> "number", val |-> n]

\* password && password.length >= 6
validatePassword(password) ==
  /\ password.type = "string"
  /\ Len(password.val) >= 6

\* !password
Falsy(v) ==
  \/ v.type = "string" /\ Len(v.val) = 0
  \/ v.type = "number" /\ v.val = 0

validateRole(role) == role \in {ROLES[k] : k \in DOMAIN ROLES}

normalizeEmail(email) == trim(toLowerCase(email))

\* ---------------------------------------------------------------- objects
\* doc[f] = v on a document in memory
setField(doc, f, v) ==
  [g \in (DOMAIN doc) \cup {f} |-> IF g = f THEN v ELSE doc[g]]

\* ------------------------------------------------------------------ bcrypt
\* bcrypt.hash(password, SALT_ROUNDS): a well-formed digest of the password
bcryptHash(password, rounds) ==
  [alg |-> "2a", cost |-> rounds, of |-> password.val]

WellFormedDigest(d) == d.alg = "2a"

\* bcrypt.compare: "throw" on a non-string argument, false on a malformed
\* digest, otherwise whether the digest is of this password
bcryptCompare(password, digest) ==
  IF password.type # "string" THEN "throw"
  ELSE IF ~WellFormedDigest(digest) THEN "false"
  ELSE IF digest.of = password.val THEN "true"
  ELSE "false"

\* -------------------------------------------------------------- responses
NoData == [none |-> TRUE]
NoCookie == [name |-> "none"]
NoErrors == <<>>

sendSuccessResponse(message, data, statusCode) ==
  [status |-> statusCode, success |-> TRUE, message |-> message,
   data |-> data, errors |-> NoErrors]

sendErrorResponse(message, statusCode, errors) ==
  [status |-> statusCode, success |-> FALSE, message |-> message,
   data |-> NoData, errors |-> errors]

\* ------------------------------------------------------------------- state
VARIABLES
  users,       \* the Auth collection: _id -> stored document
  reqs,        \* request slot -> the handler's position, locals and response
  now,         \* Date.now(): milliseconds on the server's clock
  files,       \* the names of the files in the upload directory
  processEnv,  \* process.env: the names of the variables that are set
  dbUp         \* whether the store answers; an operation on it throws if not

\* what no handler of the credential controllers writes
env == <<now, files, processEnv, dbUp>>

vars == <<users, reqs, now, files, processEnv, dbUp>>

Reqs == 1..MaxReq
Idle == [op |-> "idle", pc |-> "idle"]

\* a deployment whose environment sets both names under which the
\* controllers read the signing secret
FullEnv == {"JWT_SECRET_KEY", "JWTSECRETKEY"}

InitEnv(environments) ==
  /\ users = <<>>
  /\ reqs = [r \in Reqs |-> Idle]
  /\ now = 0
  /\ files = {}
  /\ processEnv \in environments
  /\ dbUp = TRUE

Init == InitEnv({FullEnv})

\* ------------------------------------------------------------ clock, tokens
Second == 1000
Day == 24 * 60 * 60 * 1000

\* time passes between two steps of the handlers
Tick(d) ==
  /\ now + d <= MaxDays * Day
  /\ now' = now + d
  /\ UNCHANGED <<users, reqs, files, processEnv, dbUp>>

Digits == <<"0", "1", "2", "3", "4", "5", "6", "7", "8", "9">>

parseDigits(s) ==
  LET F[k \in 0..Len(s)] ==
        IF k = 0 THEN 0
        ELSE 10 * F[k - 1] + (CHOOSE d \in 0..9 : Digits[d + 1] = s[k])
  IN F[Len(s)]

\* ms("3d"): the milliseconds of a time span written as digits and a unit
ms(str) ==
  LET unit == str[Len(str)]
  IN parseDigits(SubSeq(str, 1, Len(str) - 1))
     * (CASE unit = "s" -> Second
          [] unit = "m" -> 60 * Second
          [] unit = "h" -> 60 * 60 * Second
          [] unit = "d" -> Day)

\* an expiry that takes the milliseconds of the span for seconds
timespan_mut(expiresIn) == [iat |-> now \div Second,
                            exp |-> (now \div Second) + ms(expiresIn)]

\* the iat and exp claims jwt.sign adds: seconds, exp = iat + expiresIn
timespan(expiresIn) == [iat |-> now \div Second,
                        exp |-> (now \div Second) + (ms(expiresIn) \div Second)]

\* process.env.JWT_SECRET_KEY, and the variable the earlier controller reads
JWT_SECRET_KEY == "JWT_SECRET_KEY"
JWTSECRETKEY == "JWTSECRETKEY"

\* jwt.sign(payload, process.env[name], options) throws
\* "secretOrPrivateKey must have a value" when the variable is not set
jwtSignThrows(name) == name \notin processEnv

\* the signature of a token: made with a key, over the claims
signature(payload, key) == [key |-> key, of |-> payload]

\* a sign that reads the secret from the variable of the earlier controller
jwtSign_mut(user) ==
  LET payload ==
        [id |-> user._id, email |-> user.email, role |-> user.role,
         iss |-> "abtech-beacon", sub |-> user._id,
         iat |-> timespan(TOKEN_EXPIRY).iat, exp |-> timespan(TOKEN_EXPIRY).exp]
  IN setField(payload, "sig", signature(payload, JWTSECRETKEY))

\* jwt.sign({id, email, role}, secret, {expiresIn, issuer, subject})
jwtSign(user) ==
  LET payload ==
        [id |-> user._id, email |-> user.email, role |-> user.role,
         iss |-> "abtech-beacon", sub |-> user._id,
         iat |-> timespan(TOKEN_EXPIRY).iat, exp |-> timespan(TOKEN_EXPIRY).exp]
  IN setField(payload, "sig", signature(payload, JWT_SECRET_KEY))

\* a cookie that lives one day
tokenCookie_mut(token) ==
  [name |-> "token", value |-> token, httpOnly |-> TRUE,
   sameSite |-> "strict", maxAge |-> Day, path |-> "/"]

\* res.cookie("token", token, { httpOnly, sameSite, maxAge, path })
tokenCookie(token) ==
  [name |-> "token", value |-> token, httpOnly |-> TRUE,
   sameSite |-> "strict", maxAge |-> COOKIE_EXPIRY, path |-> "/"]

\* ------------------------------------------------------------- collection
NoUser == [none |-> TRUE]
Ids == DOMAIN users

\* AuthModel.findOne({ email })
findOneByEmail(email) ==
  LET hit == {id \in Ids : users[id].email = email}
  IN IF hit = {} THEN NoUser ELSE users[SetMin(hit)]

\* AuthModel.findOne({ email, _id: { $ne: id } })
findOneByEmailNotId(email, id) ==
  LET hit == {i \in Ids : users[i].email = email /\ i # id}
  IN IF hit = {} THEN NoUser ELSE users[SetMin(hit)]

\* AuthModel.findById(id)
findById(id) == IF id \in Ids THEN users[id] ELSE NoUser

\* new AuthModel({ name, email, password, role }): schema defaults applied
newAuthModel(id, name, email, password, role) ==
  [_id |-> id, name |-> name, email |-> email, password |-> password,
   role |-> role, bio |-> <<>>, skills |-> <<>>, goal |-> <<>>]

\* the paths of authSchema
SchemaPaths ==
  {"_id", "name", "email", "password", "role", "bio", "skills", "goal"}

\* doc.save() of a document that was read before: the stored document with
\* the modified paths of doc set; a key that is not a path of the schema is
\* ignored
save(stored, doc, modified) ==
  [f \in DOMAIN stored |->
     IF f \in modified \cap SchemaPaths THEN doc[f] ELSE stored[f]]

\* schema validation run by save(): required paths and the role enum
schemaValidationErrors(doc) ==
  (IF Len(doc.name) = 0 THEN <<"Path name is required.">> ELSE <<>>)
  \o (IF Len(doc.email) = 0 THEN <<"Path email is required.">> ELSE <<>>)
  \o (IF doc.role \notin SchemaRoleEnum
      THEN <<"not a valid enum value for path role.">> ELSE <<>>)

\* a collection without the unique index on email
duplicateKey_mut(email, id) == FALSE

\* the unique index on email: E11000 when another document holds the email
duplicateKey(email, id) ==
  \E i \in Ids : i # id /\ users[i].email = email

\* ---------------------------------------------------------------- register
RegisterRuleOrder == <<"required", "email", "password", "role", "name">>

RegisterRuleViolated(rule, name, email, password, role) ==
  CASE rule = "required" ->
         \/ Len(trim(name)) = 0
         \/ Len(trim(email)) = 0
         \/ Falsy(password)
         \/ role = ""
    [] rule = "email" -> ~validateEmail(email)
    [] rule = "password" -> ~validatePassword(password)
    [] rule = "role" -> ~validateRole(role)
    [] rule = "name" -> Len(trim(name)) < 2

RegisterRuleMessage(rule) ==
  CASE rule = "required" -> "All fields are required"
    [] rule = "email" -> "Please provide a valid email address"
    [] rule = "password" -> "Password must be at least 6 characters long"
    [] rule = "role" -> "Invalid role specified"
    [] rule = "name" -> "Name must be at least 2 characters long"

RegisterViolations(name, email, password, role) ==
  {k \in 1..Len(RegisterRuleOrder) :
     RegisterRuleViolated(RegisterRuleOrder[k], name, email, password, role)}

\* a chain of checks that lets a later rule overwrite an earlier one
registerValidate_mut(name, email, password, role) ==
  LET v == RegisterViolations(name, email, password, role)
  IN IF v = {} THEN "ok" ELSE RegisterRuleOrder[SetMax(v)]

\* the chain of early returns of register: the first violated rule, or "ok"
registerValidate(name, email, password, role) ==
  LET v == RegisterViolations(name, email, password, role)
  IN IF v = {} THEN "ok" ELSE RegisterRuleOrder[SetMin(v)]

RegisterUserView(user) ==
  [id |-> user._id, name |-> user.name, email |-> user.email,
   role |-> user.role]

RegisterConflictResponse ==
  sendErrorResponse("User already exists with this email", 409, NoErrors)

RegisterDuplicateKeyResponse ==
  sendErrorResponse("User with this email already exists", 409, NoErrors)

RegisterErrorResponse ==
  sendErrorResponse("Internal server error during registration", 500, NoErrors)

RegisterCreatedResponse(user) ==
  sendSuccessResponse("User registered successfully",
                      [user |-> RegisterUserView(user)], 201)

\* const { name, email, password, role = ROLES.USER } = req.body
roleOrDefault(role) == IF role = Undefined THEN ROLES.USER ELSE role

RegisterReq(pc, name, email, password, role, unused, hashed, path, resp, cookie, created) ==
  [op |-> "register", pc |-> pc, name |-> name, email |-> email,
   password |-> password, role |-> role, unused |-> unused,
   hashed |-> hashed, path |-> path, resp |-> resp, cookie |-> cookie,
   created |-> created]

NoResp == [status |-> 0]
NoDigest == [alg |-> "none"]

Arrives(r) ==
  /\ reqs[r] = Idle
  /\ \A q \in Reqs : q < r => reqs[q] # Idle

\* register, up to the existence pre-check and bcrypt.hash
RegisterStart(r, name, email, password, roleIn) ==
  /\ Arrives(r)
  /\ UNCHANGED env
  /\ LET role == roleOrDefault(roleIn)
         verdict == registerValidate(name, email, password, role)
         unused == findOneByEmail(normalizeEmail(email)) = NoUser
         done(path, resp) ==
           RegisterReq("done", name, email, password, role, unused,
                       NoDigest, path, resp, NoCookie, 0)
     IN reqs' = [reqs EXCEPT ![r] =
          IF verdict # "ok"
          THEN done(verdict, sendErrorResponse(RegisterRuleMessage(verdict), 400, NoErrors))
          ELSE IF ~dbUp
          THEN done("throw", RegisterErrorResponse)
          ELSE IF ~unused
          THEN done("conflict", RegisterConflictResponse)
          ELSE RegisterReq("save", name, email, password, role, unused,
                           bcryptHash(password, SALT_ROUNDS), "", NoResp, NoCookie, 0)]
  /\ UNCHANGED users

\* register, from user.save() to the response
RegisterSave(r) ==
  /\ reqs[r].op = "register"
  /\ reqs[r].pc = "save"
  /\ UNCHANGED env
  /\ LET q == reqs[r]
         user == newAuthModel(r, trim(q.name), normalizeEmail(q.email),
                              q.hashed, q.role)
         invalid == schemaValidationErrors(user)
         done(path, resp, cookie, created) ==
           RegisterReq("done", q.name, q.email, q.password, q.role, q.unused,
                       q.hashed, path, resp, cookie, created)
     IN IF invalid # <<>>
        THEN /\ reqs' = [reqs EXCEPT ![r] =
                  done("ValidationError",
                       sendErrorResponse("Validation failed", 400, invalid),
                       NoCookie, 0)]
             /\ UNCHANGED users
        ELSE IF ~dbUp
        THEN /\ reqs' = [reqs EXCEPT ![r] =
                  done("throw", RegisterErrorResponse, NoCookie, 0)]
             /\ UNCHANGED users
        ELSE IF duplicateKey(user.email, user._id)
        THEN /\ reqs' = [reqs EXCEPT ![r] =
                  done("E11000", RegisterDuplicateKeyResponse, NoCookie, 0)]
             /\ UNCHANGED users
        ELSE /\ users' = users @@ (r :> user)
             /\ reqs' = [reqs EXCEPT ![r] =
                  IF jwtSignThrows(JWT_SECRET_KEY)
                  THEN done("throw", RegisterErrorResponse, NoCookie, r)
                  ELSE done("created", RegisterCreatedResponse(user),
                            tokenCookie(jwtSign(user)), r)]

\* ------------------------------------------------------------------- login
LoginReq(pc, email, password, after, user, path, resp, cookie) ==
  [op |-> "login", pc |-> pc, email |-> email, password |-> password,
   after |-> after, user |-> user, path |-> path, resp |-> resp,
   cookie |-> cookie]

LoginUserView(user) ==
  [id |-> user._id, name |-> user.name, email |-> user.email,
   role |-> user.role, lastLoginAt |-> user.lastLoginAt]

LoginNoUserResponse ==
  sendErrorResponse("Invalid email or password", 401, NoErrors)

LoginBadPasswordResponse ==
  sendErrorResponse("Invalid email or password", 401, NoErrors)

LoginErrorResponse ==
  sendErrorResponse("Internal server error during login", 500, NoErrors)

LoginOkResponse(user) ==
  sendSuccessResponse("Login successful", [user |-> LoginUserView(user)], 200)

Completed == {q \in Reqs : reqs[q].pc = "done"}

\* login, up to AuthModel.findOne
LoginStart(r, email, password) ==
  /\ Arrives(r)
  /\ UNCHANGED env
  /\ LET user == findOneByEmail(normalizeEmail(email))
         done(path, resp) ==
           LoginReq("done", email, password, Completed, NoUser, path, resp, NoCookie)
     IN reqs' = [reqs EXCEPT ![r] =
          IF Len(trim(email)) = 0 \/ Falsy(password)
          THEN done("required", sendErrorResponse("Email and password are required", 400, NoErrors))
          ELSE IF ~validateEmail(email)
          THEN done("email", sendErrorResponse("Please provide a valid email address", 400, NoErrors))
          ELSE IF user = NoUser
          THEN done("nouser", LoginNoUserResponse)
          ELSE LoginReq("compare", email, password, Completed, user, "", NoResp, NoCookie)]
  /\ UNCHANGED users

\* a login that does not return when the password is not valid
LoginFinish_mut(r) ==
  /\ reqs[r].op = "login"
  /\ reqs[r].pc = "compare"
  /\ UNCHANGED env
  /\ LET q == reqs[r]
         isPasswordValid == bcryptCompare(q.password, q.user.password)
         done(path, resp, cookie) ==
           LoginReq("done", q.email, q.password, q.after, q.user, path, resp, cookie)
     IN reqs' = [reqs EXCEPT ![r] =
          IF isPasswordValid = "throw"
          THEN done("throw", LoginErrorResponse, NoCookie)
          ELSE done("ok", LoginOkResponse(setField(q.user, "lastLoginAt", now)),
                    tokenCookie(jwtSign(q.user)))]
  /\ UNCHANGED users

\* login, from bcrypt.compare to the response: user.lastLoginAt = new Date()
\* and user.save() after a password that verified
LoginFinish(r) ==
  /\ reqs[r].op = "login"
  /\ reqs[r].pc = "compare"
  /\ UNCHANGED env
  /\ LET q == reqs[r]
         isPasswordValid == bcryptCompare(q.password, q.user.password)
         user == setField(q.user, "lastLoginAt", now)
         done(path, resp, cookie) ==
           LoginReq("done", q.email, q.password, q.after, q.user, path, resp, cookie)
     IN IF isPasswordValid = "true"
        THEN /\ users' = [users EXCEPT ![user._id] = save(@, user, {"lastLoginAt"})]
             /\ reqs' = [reqs EXCEPT ![r] =
                  IF jwtSignThrows(JWT_SECRET_KEY)
                  THEN done("throw", LoginErrorResponse, NoCookie)
                  ELSE done("ok", LoginOkResponse(user), tokenCookie(jwtSign(user)))]
        ELSE /\ UNCHANGED users
             /\ reqs' = [reqs EXCEPT ![r] =
                  IF isPasswordValid = "throw"
                  THEN done("throw", LoginErrorResponse, NoCookie)
                  ELSE done("badpw", LoginBadPasswordResponse, NoCookie)]

\* ------------------------------------------------------------------ logout
\* res.clearCookie("token", { httpOnly, sameSite, path }): the cookie with an
\* empty value that expires at the epoch
clearCookie(name) ==
  [name |-> name, value |-> <<>>, httpOnly |-> TRUE, sameSite |-> "strict",
   expires |-> 1, path |-> "/"]

LogoutOkResponse == sendSuccessResponse("Logout successful", NoData, 200)

\* a logout that records the time of the logout on the accounts
Logout_mut(r) ==
  /\ Arrives(r)
  /\ UNCHANGED env
  /\ reqs' = [reqs EXCEPT ![r] =
       [op |-> "logout", pc |-> "done", path |-> "ok", after |-> Completed,
        resp |-> LogoutOkResponse, cookie |-> clearCookie("token")]]
  /\ users' = [i \in Ids |-> setField(users[i], "loggedOutAt", now)]

\* logout: clears the cookie and answers; it reads and writes no document
Logout(r) ==
  /\ Arrives(r)
  /\ UNCHANGED env
  /\ reqs' = [reqs EXCEPT ![r] =
       [op |-> "logout", pc |-> "done", path |-> "ok", after |-> Completed,
        resp |-> LogoutOkResponse, cookie |-> clearCookie("token")]]
  /\ UNCHANGED users

\* ------------------------------------------------- profile reads (Auth.js)
\* an id from the route: BadId is a string that is not 24 hex digits, every
\* other value is a well-formed ObjectId (the _id of a document or of none)
BadId == 0
isObjectIdFormat(id) == id # BadId

\* what the guard attached as req.user: the claims of a token this server
\* issued, or nothing
NoReqUser == [none |-> TRUE]
IssuedTokens ==
  {reqs[q].cookie.value : q \in {x \in Reqs : reqs[x].pc = "done"
                                    /\ reqs[x].op \in {"register", "login"}
                                    /\ reqs[x].cookie # NoCookie}}

\* .select("-password -__v")
selectWithoutPassword(doc) == [f \in (DOMAIN doc) \ {"password"} |-> doc[f]]

\* a schema without the toJSON transform
toJSON_mut(doc) == doc

\* the toJSON transform of the schema: delete ret.password
toJSON(doc) == [f \in (DOMAIN doc) \ {"password"} |-> doc[f]]

\* doc.key of a document read from the collection
getField(doc, f) == IF f \in DOMAIN doc THEN doc[f] ELSE Undefined

SafeUserData(userData) ==
  [id |-> userData._id, name |-> userData.name, email |-> userData.email,
   role |-> userData.role, lastLoginAt |-> getField(userData, "lastLoginAt")]

ReadReq(op, path, resp) ==
  [op |-> op, pc |-> "done", path |-> path, resp |-> resp]

\* getUserData: one read of the collection
GetUserData(r, id) ==
  /\ Arrives(r)
  /\ UNCHANGED env
  /\ LET userData == IF isObjectIdFormat(id)
                     THEN selectWithoutPassword(findById(id)) ELSE NoUser
     IN reqs' = [reqs EXCEPT ![r] =
          IF ~isObjectIdFormat(id)
          THEN ReadReq("getUserData", "format",
                       sendErrorResponse("Invalid user ID format", 400, NoErrors))
          ELSE IF findById(id) = NoUser
          THEN ReadReq("getUserData", "notfound",
                       sendErrorResponse("User not found", 404, NoErrors))
          ELSE ReadReq("getUserData", "ok",
                       sendSuccessResponse("User data retrieved successfully",
                                           [user |-> SafeUserData(userData)], 200))]
  /\ UNCHANGED users

\* getCurrentUser: one read of the collection
GetCurrentUser(r, reqUser) ==
  /\ Arrives(r)
  /\ UNCHANGED env
  /\ LET userData == IF reqUser = NoReqUser THEN NoUser
                     ELSE selectWithoutPassword(findById(reqUser.id))
     IN reqs' = [reqs EXCEPT ![r] =
          IF reqUser = NoReqUser
          THEN ReadReq("getCurrentUser", "unauthenticated",
                       sendErrorResponse("User not authenticated", 401, NoErrors))
          ELSE IF findById(reqUser.id) = NoUser
          THEN ReadReq("getCurrentUser", "notfound",
                       sendErrorResponse("User not found", 404, NoErrors))
          ELSE ReadReq("getCurrentUser", "ok",
                       sendSuccessResponse("User profile retrieved successfully",
                                           [user |-> SafeUserData(userData)], 200))]
  /\ UNCHANGED users

\* ----------------------------------------------------------- profile edits
\* the fields an update sets: `fields` names the keys of the updates object
NoUpdates ==
  [fields |-> {}, name |-> <<>>, email |-> <<>>, bio |-> <<>>,
   skills |-> <<>>, goal |-> <<>>]

\* an update that passes the whole request body on, a role included
applyUpdates_mut(doc, updates) ==
  [doc EXCEPT
     !.name = IF "name" \in updates.fields THEN updates.name ELSE @,
     !.email = IF "email" \in updates.fields THEN updates.email ELSE @,
     !.role = ROLES.ADMIN]

\* the document after findByIdAndUpdate(id, updates): the keys of updates
\* are set, every other path is kept
applyUpdates(doc, updates) ==
  [doc EXCEPT
     !.name = IF "name" \in updates.fields THEN updates.name ELSE @,
     !.email = IF "email" \in updates.fields THEN updates.email ELSE @,
     !.bio = IF "bio" \in updates.fields THEN updates.bio ELSE @,
     !.skills = IF "skills" \in updates.fields THEN updates.skills ELSE @,
     !.goal = IF "goal" \in updates.fields THEN updates.goal ELSE @]

EditReq(op, pc, id, updates, path, resp) ==
  [op |-> op, pc |-> pc, id |-> id, updates |-> updates, path |-> path,
   resp |-> resp]

\* req.user, which stays on the request while its handler runs
withUser(q, reqUser) == setField(q, "user", reqUser)

\* req.body, likewise
withBody(q, body) == setField(q, "body", body)

\* AuthModel.findByIdAndUpdate(id, updates, { new: true, runValidators: true })
\* with the handler's answer: "CastError", "E11000", "notfound" or "ok"
findByIdAndUpdateOutcome(id, updates) ==
  IF ~isObjectIdFormat(id) THEN "CastError"
  ELSE IF id \notin Ids THEN "notfound"
  ELSE IF "email" \in updates.fields /\ duplicateKey(updates.email, id)
  THEN "E11000"
  ELSE "ok"

\* updateProfile, up to the email pre-check
UpdateProfileStart(r, reqUser, id, name, email) ==
  /\ Arrives(r)
  /\ UNCHANGED env
  /\ LET named == Len(trim(name)) > 0
         mailed == Len(trim(email)) > 0
         updates == [NoUpdates EXCEPT
                       !.fields = (IF named THEN {"name"} ELSE {})
                                  \cup (IF mailed THEN {"email"} ELSE {}),
                       !.name = IF named THEN trim(name) ELSE <<>>,
                       !.email = IF mailed THEN normalizeEmail(email) ELSE <<>>]
         done(path, resp) == EditReq("updateProfile", "done", id, NoUpdates, path, resp)
         error == sendErrorResponse("Internal server error while updating profile",
                                    500, NoErrors)
     IN reqs' = [reqs EXCEPT ![r] = withUser(
          IF reqUser = NoReqUser
          THEN done("TypeError", error)
          ELSE IF reqUser.id # id /\ reqUser.role # ROLES.ADMIN
          THEN done("forbidden",
                    sendErrorResponse("Unauthorized to update this profile", 403, NoErrors))
          ELSE IF named /\ Len(trim(name)) < 2
          THEN done("name",
                    sendErrorResponse("Name must be at least 2 characters long", 400, NoErrors))
          ELSE IF mailed /\ ~validateEmail(email)
          THEN done("email",
                    sendErrorResponse("Please provide a valid email address", 400, NoErrors))
          ELSE IF updates.fields = {}
          THEN done("empty", sendErrorResponse("No valid fields to update", 400, NoErrors))
          ELSE IF mailed /\ ~isObjectIdFormat(id)
          THEN done("CastError", error)
          ELSE IF mailed /\ findOneByEmailNotId(updates.email, id) # NoUser
          THEN done("conflict", sendErrorResponse("Email is already taken", 409, NoErrors))
          ELSE EditReq("updateProfile", "update", id, updates, "", NoResp),
          reqUser)]
  /\ UNCHANGED users

\* updateProfile, from findByIdAndUpdate to the response
UpdateProfileFinish(r) ==
  /\ reqs[r].op = "updateProfile"
  /\ reqs[r].pc = "update"
  /\ UNCHANGED env
  /\ LET q == reqs[r]
         outcome == findByIdAndUpdateOutcome(q.id, q.updates)
         done(path, resp) ==
           withUser(EditReq("updateProfile", "done", q.id, q.updates, path, resp), q.user)
     IN IF outcome = "ok"
        THEN /\ users' = [users EXCEPT ![q.id] = applyUpdates(@, q.updates)]
             /\ reqs' = [reqs EXCEPT ![r] =
                  done("ok", sendSuccessResponse("Profile updated successfully",
                         [user |-> toJSON(selectWithoutPassword(
                                      applyUpdates(users[q.id], q.updates)))], 200))]
        ELSE /\ UNCHANGED users
             /\ reqs' = [reqs EXCEPT ![r] =
                  CASE outcome = "CastError" ->
                         done("CastError",
                              sendErrorResponse("Internal server error while updating profile",
                                                500, NoErrors))
                    [] outcome = "E11000" ->
                         done("E11000", sendErrorResponse("Email is already taken", 409, NoErrors))
                    [] outcome = "notfound" ->
                         done("notfound", sendErrorResponse("User not found", 404, NoErrors))]

\* the skills value of a request body: absent, an array of strings, or a
\* value that is not an array
NoSkills == [kind |-> "undefined", val |-> <<>>]
SkillsArray(a) == [kind |-> "array", val |-> a]
SkillsOther == [kind |-> "string", val |-> <<>>]

validateSkills(skills) ==
  /\ skills.kind = "array"
  /\ \A k \in 1..Len(skills.val) : Len(trim(skills.val[k])) > 0

validateGoal(goal) == Len(goal) > 0 /\ Len(trim(goal)) >= 5

validateBio(bio) == Len(bio) > 0 /\ Len(trim(bio)) >= 10

EditRuleOrder == <<"name", "email", "bio", "skills", "goal">>

EditRuleViolated(rule, name, email, bio, skills, goal) ==
  CASE rule = "name" -> Len(trim(name)) > 0 /\ Len(trim(name)) < 2
    [] rule = "email" -> Len(trim(email)) > 0 /\ ~validateEmail(email)
    [] rule = "bio" -> Len(trim(bio)) > 0 /\ ~validateBio(bio)
    [] rule = "skills" -> skills.kind # "undefined" /\ ~validateSkills(skills)
    [] rule = "goal" -> Len(trim(goal)) > 0 /\ ~validateGoal(goal)

EditRuleMessage(rule) ==
  CASE rule = "name" -> "Name must be at least 2 characters long"
    [] rule = "email" -> "Please provide a valid email address"
    [] rule = "bio" -> "Bio must be at least 10 characters long"
    [] rule = "skills" -> "Skills must be an array of non-empty strings"
    [] rule = "goal" -> "Goal must be at least 5 characters long"

\* a handler that returns on the first field that fails
editValidationErrors_mut(name, email, bio, skills, goal) ==
  LET failed == {k \in DOMAIN EditRuleOrder :
                   EditRuleViolated(EditRuleOrder[k], name, email, bio, skills, goal)}
  IN IF failed = {} THEN <<>>
     ELSE <<EditRuleMessage(EditRuleOrder[SetMin(failed)])>>

\* validationErrors, in the order the handler pushes them
editValidationErrors(name, email, bio, skills, goal) ==
  LET F[k \in 0..Len(EditRuleOrder)] ==
        IF k = 0 THEN <<>>
        ELSE IF EditRuleViolated(EditRuleOrder[k], name, email, bio, skills, goal)
        THEN Append(F[k - 1], EditRuleMessage(EditRuleOrder[k]))
        ELSE F[k - 1]
  IN F[Len(EditRuleOrder)]

\* the updates object editProfile builds from the fields that are present
editUpdates(name, email, bio, skills, goal) ==
  LET has == [name |-> Len(trim(name)) > 0, email |-> Len(trim(email)) > 0,
              bio |-> Len(trim(bio)) > 0, skills |-> skills.kind # "undefined",
              goal |-> Len(trim(goal)) > 0]
  IN [fields |-> {f \in {"name", "email", "bio", "skills", "goal"} :
                    has[f] /\ ~EditRuleViolated(f, name, email, bio, skills, goal)},
      name |-> trim(name),
      email |-> normalizeEmail(email),
      bio |-> trim(bio),
      skills |-> IF validateSkills(skills)
                 THEN [k \in 1..Len(skills.val) |-> trim(skills.val[k])]
                 ELSE <<>>,
      goal |-> trim(goal)]

EditUserView(u) ==
  [id |-> u._id, name |-> u.name, email |-> u.email, role |-> u.role,
   bio |-> u.bio, skills |-> u.skills, goal |-> u.goal]

\* editProfile, up to the email pre-check
editProfile(r, id, name, email, bio, skills, goal) ==
  /\ UNCHANGED env
  /\ LET errors == editValidationErrors(name, email, bio, skills, goal)
         updates == editUpdates(name, email, bio, skills, goal)
         done(path, resp) == EditReq("editProfile", "done", id, NoUpdates, path, resp)
     IN reqs' = [reqs EXCEPT ![r] = withBody(withUser(
          IF ~isObjectIdFormat(id)
          THEN done("format", sendErrorResponse("Invalid user ID format", 400, NoErrors))
          ELSE IF errors # <<>>
          THEN done("validation", sendErrorResponse("Validation failed", 400, errors))
          ELSE IF updates.fields = {}
          THEN done("empty", sendErrorResponse("No valid fields to update", 400, NoErrors))
          ELSE IF "email" \in updates.fields
                  /\ findOneByEmailNotId(updates.email, id) # NoUser
          THEN done("conflict",
                    sendErrorResponse("Email is already taken by another user", 409, NoErrors))
          ELSE EditReq("editProfile", "update", id, updates, "", NoResp),
          IF reqs[r].op = "guard" THEN reqs[r].user ELSE NoReqUser),
          [name |-> name, email |-> email, bio |-> bio, skills |-> skills,
           goal |-> goal])]
  /\ UNCHANGED users

\* editProfile called on a request that has just arrived
EditProfileStart(r, id, name, email, bio, skills, goal) ==
  /\ Arrives(r)
  /\ editProfile(r, id, name, email, bio, skills, goal)

\* editProfile, from findByIdAndUpdate to the response
EditProfileFinish(r) ==
  /\ reqs[r].op = "editProfile"
  /\ reqs[r].pc = "update"
  /\ UNCHANGED env
  /\ LET q == reqs[r]
         outcome == findByIdAndUpdateOutcome(q.id, q.updates)
         done(path, resp) ==
           withBody(withUser(EditReq("editProfile", "done", q.id, q.updates, path, resp),
                             q.user), q.body)
     IN IF outcome = "ok"
        THEN /\ users' = [users EXCEPT ![q.id] = applyUpdates(@, q.updates)]
             /\ reqs' = [reqs EXCEPT ![r] =
                  done("ok", sendSuccessResponse("Profile updated successfully",
                         [user |-> EditUserView(selectWithoutPassword(
                                      applyUpdates(users[q.id], q.updates)))], 200))]
        ELSE /\ UNCHANGED users
             /\ reqs' = [reqs EXCEPT ![r] =
                  CASE outcome = "CastError" ->
                         done("CastError",
                              sendErrorResponse("Invalid user ID format", 400, NoErrors))
                    [] outcome = "E11000" ->
                         done("E11000",
                              sendErrorResponse("Email is already taken by another user",
                                                409, NoErrors))
                    [] outcome = "notfound" ->
                         done("notfound", sendErrorResponse("User not found", 404, NoErrors))]

\* ------------------------------------- the earlier controller (Auth.js, v1)
LegacyResponse(status, message, user) ==
  [status |-> status, message |-> message, user |-> user]

LegacyReq(op, pc, email, password, doc, path, resp, cookie) ==
  [op |-> op, pc |-> pc, email |-> email, password |-> password,
   doc |-> doc, path |-> path, resp |-> resp, cookie |-> cookie]

LegacySalt == 10

\* jwt.sign({ id: user._id }, secret, { expiresIn: "3d" })
legacyJwtSign(user) ==
  LET payload == [id |-> user._id, iat |-> timespan(<<"3", "d">>).iat,
                  exp |-> timespan(<<"3", "d">>).exp]
  IN setField(payload, "sig", signature(payload, JWTSECRETKEY))

\* register of the earlier controller, up to bcrypt.hash
LegacyRegisterStart(r, name, email, password, role) ==
  /\ Arrives(r)
  /\ UNCHANGED env
  /\ LET done(path, resp) ==
           LegacyReq("legacyRegister", "done", email, password, NoUser, path, resp, NoCookie)
     IN reqs' = [reqs EXCEPT ![r] =
          IF Len(name) = 0 \/ Len(email) = 0 \/ Falsy(password)
             \/ role = "" \/ role = Undefined
          THEN done("required", LegacyResponse(400, "All fields are required", NoUser))
          ELSE IF findOneByEmail(email) # NoUser
          THEN done("conflict", LegacyResponse(400, "User already exists", NoUser))
          ELSE IF password.type # "string"
          THEN done("throw", LegacyResponse(500, "Server error", NoUser))
          ELSE LegacyReq("legacyRegister", "save", email, password,
                         newAuthModel(r, name, email, bcryptHash(password, LegacySalt), role),
                         "", NoResp, NoCookie)]
  /\ UNCHANGED users

\* register of the earlier controller, from user.save() to the response
LegacyRegisterSave(r) ==
  /\ reqs[r].op = "legacyRegister"
  /\ reqs[r].pc = "save"
  /\ UNCHANGED env
  /\ LET q == reqs[r]
         done(path, resp, cookie) ==
           LegacyReq("legacyRegister", "done", q.email, q.password, q.doc, path, resp, cookie)
     IN IF schemaValidationErrors(q.doc) # <<>> \/ duplicateKey(q.doc.email, q.doc._id)
        THEN /\ reqs' = [reqs EXCEPT ![r] =
                  done("throw", LegacyResponse(500, "Server error", NoUser), NoCookie)]
             /\ UNCHANGED users
        ELSE /\ users' = users @@ (r :> q.doc)
             /\ reqs' = [reqs EXCEPT ![r] =
                  IF jwtSignThrows(JWTSECRETKEY)
                  THEN done("throw", LegacyResponse(500, "Server error", NoUser), NoCookie)
                  ELSE done("created",
                            LegacyResponse(201, "User registered successfully", toJSON(q.doc)),
                            tokenCookie(legacyJwtSign(q.doc)))]

LegacyLoginNoUserResponse == LegacyResponse(400, "Invalid credentials", NoUser)

LegacyLoginBadPasswordResponse == LegacyResponse(400, "Invalid credentials", NoUser)

\* login of the earlier controller, up to AuthModel.findOne
LegacyLoginStart(r, email, password) ==
  /\ Arrives(r)
  /\ UNCHANGED env
  /\ LET user == findOneByEmail(email)
     IN reqs' = [reqs EXCEPT ![r] =
          IF user = NoUser
          THEN LegacyReq("legacyLogin", "done", email, password, NoUser, "nouser",
                         LegacyLoginNoUserResponse, NoCookie)
          ELSE LegacyReq("legacyLogin", "compare", email, password, user, "",
                         NoResp, NoCookie)]
  /\ UNCHANGED users

\* login of the earlier controller, from bcrypt.compare to the response
LegacyLoginFinish(r) ==
  /\ reqs[r].op = "legacyLogin"
  /\ reqs[r].pc = "compare"
  /\ UNCHANGED env
  /\ LET q == reqs[r]
         isMatch == bcryptCompare(q.password, q.doc.password)
         done(path, resp, cookie) ==
           LegacyReq("legacyLogin", "done", q.email, q.password, q.doc, path, resp, cookie)
     IN reqs' = [reqs EXCEPT ![r] =
          IF isMatch = "throw"
          THEN done("throw", LegacyResponse(500, "Server error", NoUser), NoCookie)
          ELSE IF isMatch = "false"
          THEN done("badpw", LegacyLoginBadPasswordResponse, NoCookie)
          ELSE IF jwtSignThrows(JWTSECRETKEY)
          THEN done("throw", LegacyResponse(500, "Server error", NoUser), NoCookie)
          ELSE done("ok", LegacyResponse(200, "Login successful", toJSON(q.doc)),
                    tokenCookie(legacyJwtSign(q.doc)))]
  /\ UNCHANGED users

\* ------------------------------------------- token verifier, authorize
\* what a request presents as its token: nothing, a string that is not a
\* token, or a token (claims and signature)
NoToken == [none |-> TRUE]
Malformed == [malformed |-> TRUE]

claimsOf(token) == [f \in (DOMAIN token) \ {"sig"} |-> token[f]]

Failure(kind) == [ok |-> FALSE, error |-> kind]
Valid(claims) == [ok |-> TRUE, claims |-> claims]

\* verify(token) -> claims | EXPIRED | INVALID_SIGNATURE | MALFORMED: an
\* expired token is rejected whether or not its signature is valid
verify(token) ==
  IF "sig" \notin DOMAIN token \/ "exp" \notin DOMAIN token
  THEN Failure("MALFORMED")
  ELSE IF now \div Second >= token.exp THEN Failure("EXPIRED")
  ELSE IF token.sig # signature(claimsOf(token), JWT_SECRET_KEY)
  THEN Failure("INVALID_SIGNATURE")
  ELSE Valid(claimsOf(token))

\* the roles a route requires, if it requires any
NoRoles == [given |-> FALSE, set |-> {}]
RequireRoles(S) == [given |-> TRUE, set |-> S]

\* an authorize that checks the role before the token
authorize_mut(token, requiredRoles) ==
  IF /\ requiredRoles.given /\ "role" \in DOMAIN token
     /\ token.role \notin requiredRoles.set
  THEN Failure("FORBIDDEN")
  ELSE IF token = NoToken \/ ~verify(token).ok
  THEN Failure("UNAUTHENTICATED")
  ELSE Valid(verify(token).claims)

\* authorize(token, requiredRoles?)
authorize(token, requiredRoles) ==
  IF token = NoToken \/ ~verify(token).ok
  THEN Failure("UNAUTHENTICATED")
  ELSE IF /\ requiredRoles.given
          /\ getField(verify(token).claims, "role") \notin requiredRoles.set
  THEN Failure("FORBIDDEN")
  ELSE Valid(verify(token).claims)

\* ----------------------------------------------------- authorization guard
\* the routes of the guard's usage and of profileRoutes
PROFILE_GET == "GET /api/profile/:id"
PROFILE_PUT == "PUT /api/profile/:id"
ADMIN_GET == "GET /admin"
MENTOR_DASHBOARD == "GET /mentor-dashboard"
PUBLIC_DATA == "GET /public-data"

\* routes where the admin route is given the plain guard only
RouteGuard_mut(route) ==
  CASE route = PROFILE_GET -> [mode |-> "required", roles |-> NoRoles]
    [] route = PROFILE_PUT -> [mode |-> "required", roles |-> NoRoles]
    [] route = ADMIN_GET -> [mode |-> "required", roles |-> NoRoles]
    [] route = MENTOR_DASHBOARD ->
         [mode |-> "required", roles |-> RequireRoles({"mentor", "admin"})]
    [] route = PUBLIC_DATA -> [mode |-> "optional", roles |-> NoRoles]

\* the guards in front of a route: mode and required roles
RouteGuard(route) ==
  CASE route = PROFILE_GET -> [mode |-> "required", roles |-> NoRoles]
    [] route = PROFILE_PUT -> [mode |-> "required", roles |-> NoRoles]
    [] route = ADMIN_GET -> [mode |-> "required", roles |-> RequireRoles({"admin"})]
    [] route = MENTOR_DASHBOARD ->
         [mode |-> "required", roles |-> RequireRoles({"mentor", "admin"})]
    [] route = PUBLIC_DATA -> [mode |-> "optional", roles |-> NoRoles]

GuardReq(pc, route, token, verified, result, user, resp) ==
  [op |-> "guard", pc |-> pc, route |-> route, token |-> token, at |-> now,
   verified |-> verified, result |-> result, user |-> user, resp |-> resp]

GuardResponse(kind) ==
  sendErrorResponse(kind, IF kind = "FORBIDDEN" THEN 403 ELSE 401, NoErrors)

\* a guard that rejects in optional mode as it does in required mode
Guard_mut(r, route, token) ==
  /\ Arrives(r)
  /\ UNCHANGED <<users, env>>
  /\ LET g == RouteGuard(route)
         verified == IF token = NoToken THEN Failure("MISSING") ELSE verify(token)
         result == authorize(token, g.roles)
     IN reqs' = [reqs EXCEPT ![r] =
          IF result.ok \/ (g.mode = "optional" /\ token = NoToken)
          THEN GuardReq("next", route, token, verified, result,
                        IF result.ok THEN result.claims ELSE NoReqUser, NoResp)
          ELSE GuardReq("done", route, token, verified, result, NoReqUser,
                        GuardResponse(result.error))]

\* the guard of a route: authorize, then reject or pass to the handler
Guard(r, route, token) ==
  /\ Arrives(r)
  /\ UNCHANGED <<users, env>>
  /\ LET g == RouteGuard(route)
         verified == IF token = NoToken THEN Failure("MISSING") ELSE verify(token)
         result == authorize(token, g.roles)
     IN reqs' = [reqs EXCEPT ![r] =
          IF g.mode = "optional"
          THEN GuardReq("next", route, token, verified, result,
                        IF result.ok THEN result.claims ELSE NoReqUser, NoResp)
          ELSE IF result.ok
          THEN GuardReq("next", route, token, verified, result, result.claims, NoResp)
          ELSE GuardReq("done", route, token, verified, result, NoReqUser,
                        GuardResponse(result.error))]

Passed(r, route) ==
  /\ reqs[r].op = "guard"
  /\ reqs[r].pc = "next"
  /\ reqs[r].route = route

\* the handler behind a route of the guard's usage: it answers with the
\* identity the guard attached
Downstream(r) ==
  /\ \E route \in {ADMIN_GET, MENTOR_DASHBOARD, PUBLIC_DATA} : Passed(r, route)
  /\ UNCHANGED <<users, env>>
  /\ reqs' = [reqs EXCEPT ![r] =
       [op |-> "handler", pc |-> "done", route |-> reqs[r].route,
        user |-> reqs[r].user, path |-> "ok",
        resp |-> sendSuccessResponse("ok", [identity |-> reqs[r].user], 200)]]

\* -------------------------------------------------------- profileRoutes
ProfileSafeUserData(userData) ==
  [id |-> userData._id, name |-> userData.name, email |-> userData.email,
   role |-> userData.role, profileImage |-> getField(userData, "profileImage"),
   bio |-> userData.bio, skills |-> userData.skills, goal |-> userData.goal,
   lastLoginAt |-> getField(userData, "lastLoginAt")]

\* getUserData of the profile controller: one read of the collection
profileGetUserData(r, id) ==
  /\ UNCHANGED <<users, env>>
  /\ reqs' = [reqs EXCEPT ![r] =
       IF ~isObjectIdFormat(id)
       THEN ReadReq("profileGetUserData", "format",
                    sendErrorResponse("Invalid user ID format", 400, NoErrors))
       ELSE IF findById(id) = NoUser
       THEN ReadReq("profileGetUserData", "notfound",
                    sendErrorResponse("User not found", 404, NoErrors))
       ELSE ReadReq("profileGetUserData", "ok",
                    sendSuccessResponse("User data retrieved successfully",
                      [user |-> ProfileSafeUserData(selectWithoutPassword(findById(id)))],
                      200))]

\* profileRoutes.get("/:id", authMiddleware, getUserData)
ProfileGet(r, id) ==
  /\ Passed(r, PROFILE_GET)
  /\ profileGetUserData(r, id)

\* a route that calls the handler without the guard
ProfilePut_mut(r, id, name, email, bio, skills, goal) ==
  /\ Arrives(r) \/ Passed(r, PROFILE_PUT)
  /\ editProfile(r, id, name, email, bio, skills, goal)

\* profileRoutes.put("/:id", authMiddleware, EditProfile)
ProfilePut(r, id, name, email, bio, skills, goal) ==
  /\ Passed(r, PROFILE_PUT)
  /\ editProfile(r, id, name, email, bio, skills, goal)

\* ---------------------------------------------- profile images (profile.js)
ALLOWED_IMAGE_TYPES == {"image/jpeg", "image/jpg", "image/png", "image/webp"}
MAX_IMAGE_SIZE == 5 * 1024 * 1024

\* uploadMiddleware.js: the types multer's fileFilter lets through, each with
\* the extension of the stored file
ALLOWED_MIME_TYPES ==
  [t \in ALLOWED_IMAGE_TYPES \cup {"image/gif"} |->
     CASE t = "image/jpeg" -> "jpg"
       [] t = "image/jpg" -> "jpg"
       [] t = "image/png" -> "png"
       [] t = "image/webp" -> "webp"
       [] t = "image/gif" -> "gif"]

\* the name diskStorage gives the file of request r: img-<timestamp>-<random>
\* and the extension of its type; no two requests get the same name
multerFilename(r, mimetype) ==
  <<"img-", r, ".",
    IF mimetype \in DOMAIN ALLOWED_MIME_TYPES
    THEN ALLOWED_MIME_TYPES[mimetype] ELSE "bin">>

NoFile == [none |-> TRUE]

\* req.file as multer leaves it once the file is written to the directory
multerFile(r, mimetype, size) ==
  [filename |-> multerFilename(r, mimetype), mimetype |-> mimetype,
   size |-> size]

\* fs.existsSync and fs.unlinkSync on the upload directory
existsSync(dir, filename) == filename \in dir
unlinkSync(dir, filename) == dir \ {filename}

\* user.profileImage && user.profileImage !== "": a document read from the
\* store has the keys the store holds
hasProfileImage(user) ==
  "profileImage" \in DOMAIN user /\ Len(user.profileImage) > 0

ImageReq(op, pc, id, file, user, path, resp) ==
  [op |-> op, pc |-> pc, id |-> id, file |-> file, user |-> user,
   path |-> path, resp |-> resp]

ImageUserView(user) ==
  [id |-> user._id, name |-> user.name,
   profileImage |-> getField(user, "profileImage")]

UploadOkResponse(file, user) ==
  sendSuccessResponse("Profile image uploaded successfully",
                      [profileImage |-> file.filename,
                       user |-> ImageUserView(user)], 200)

\* the catch block of uploadProfileImage: the received file is removed if it
\* is still there
uploadCleanup(dir, file) ==
  IF file # NoFile /\ existsSync(dir, file.filename)
  THEN unlinkSync(dir, file.filename) ELSE dir

\* the upload directory once multer has written the file of the request
multerWrite(dir, file) == IF file = NoFile THEN dir ELSE dir \cup {file.filename}

\* uploadProfileImage up to AuthModel.findById, on a request whose file
\* multer has written: received is the upload directory at that point
uploadProfileImage(r, id, file, received) ==
  /\ UNCHANGED <<users, now, processEnv, dbUp>>
  /\ LET done(path, message, status) ==
           ImageReq("uploadProfileImage", "done", id, file, NoUser, path,
                    sendErrorResponse(message, status, NoErrors))
     IN IF ~isObjectIdFormat(id)
        THEN /\ files' = received
             /\ reqs' = [reqs EXCEPT ![r] =
                  done("badid", "Invalid user ID format", 400)]
        ELSE IF file = NoFile
        THEN /\ files' = received
             /\ reqs' = [reqs EXCEPT ![r] =
                  done("nofile", "No image file provided", 400)]
        ELSE IF file.mimetype \notin ALLOWED_IMAGE_TYPES
        THEN /\ files' = unlinkSync(received, file.filename)
             /\ reqs' = [reqs EXCEPT ![r] =
                  done("type", "Invalid file type. Only JPEG, JPG, PNG, and WebP images are allowed", 400)]
        ELSE IF file.size > MAX_IMAGE_SIZE
        THEN /\ files' = unlinkSync(received, file.filename)
             /\ reqs' = [reqs EXCEPT ![r] =
                  done("size", "Image size too large. Maximum size is 5MB", 400)]
        ELSE IF ~dbUp
        THEN /\ files' = uploadCleanup(received, file)
             /\ reqs' = [reqs EXCEPT ![r] =
                  done("throw", "Internal server error while uploading profile image", 500)]
        ELSE /\ files' = received
             /\ reqs' = [reqs EXCEPT ![r] =
                  ImageReq("uploadProfileImage", "found", id, file,
                           findById(id), "", NoResp)]

\* uploadProfileImage behind multer's single-file upload
UploadProfileImageStart(r, id, file) ==
  /\ Arrives(r)
  /\ uploadProfileImage(r, id, file, multerWrite(files, file))

MAX_FILE_SIZE == 5 * 1024 * 1024

\* validateUploadedFile: the errorType it answers with, or "next"
validateUploadedFile(dir, file) ==
  IF file = NoFile THEN "NO_FILE"
  ELSE IF ~existsSync(dir, file.filename) THEN "FILE_SAVE_ERROR"
  ELSE IF file.size > MAX_FILE_SIZE THEN "FILE_SIZE_EXCEEDED"
  ELSE "next"

\* uploadProfileImage behind multer's upload and validateUploadedFile
UploadValidatedStart(r, id, file) ==
  /\ Arrives(r)
  /\ LET received == multerWrite(files, file)
         verdict == validateUploadedFile(received, file)
         done(message, status) ==
           ImageReq("uploadProfileImage", "done", id, file, NoUser, verdict,
                    sendErrorResponse(message, status, NoErrors))
     IN IF verdict = "next"
        THEN uploadProfileImage(r, id, file, received)
        ELSE /\ UNCHANGED <<users, now, processEnv, dbUp>>
             /\ files' = IF verdict = "FILE_SIZE_EXCEEDED"
                         THEN unlinkSync(received, file.filename) ELSE received
             /\ reqs' = [reqs EXCEPT ![r] =
                  IF verdict = "NO_FILE" THEN done("No file uploaded", 400)
                  ELSE IF verdict = "FILE_SAVE_ERROR"
                  THEN done("File upload failed - file not saved", 500)
                  ELSE done("File size exceeds limit of 5MB", 400)]

\* uploadProfileImage, from the document findById returned to the response
UploadProfileImageFinish(r) ==
  /\ reqs[r].op = "uploadProfileImage"
  /\ reqs[r].pc = "found"
  /\ UNCHANGED <<now, processEnv, dbUp>>
  /\ LET q == reqs[r]
         kept == IF hasProfileImage(q.user)
                      /\ existsSync(files, q.user.profileImage)
                 THEN unlinkSync(files, q.user.profileImage) ELSE files
         user == setField(q.user, "profileImage", q.file.filename)
         done(path, resp) ==
           ImageReq("uploadProfileImage", "done", q.id, q.file, q.user, path, resp)
     IN IF q.user = NoUser
        THEN /\ files' = unlinkSync(files, q.file.filename)
             /\ reqs' = [reqs EXCEPT ![r] =
                  done("nouser", sendErrorResponse("User not found", 404, NoErrors))]
             /\ UNCHANGED users
        ELSE IF ~dbUp
        THEN /\ files' = uploadCleanup(kept, q.file)
             /\ reqs' = [reqs EXCEPT ![r] =
                  done("throw", sendErrorResponse(
                         "Internal server error while uploading profile image",
                         500, NoErrors))]
             /\ UNCHANGED users
        ELSE /\ files' = kept
             /\ users' = [users EXCEPT ![q.id] = save(@, user, {"profileImage"})]
             /\ reqs' = [reqs EXCEPT ![r] =
                  done("ok", UploadOkResponse(q.file, user))]

\* deleteProfileImage, up to AuthModel.findById
DeleteProfileImageStart(r, id) ==
  /\ Arrives(r)
  /\ UNCHANGED <<users, env>>
  /\ LET done(path, message, status) ==
           ImageReq("deleteProfileImage", "done", id, NoFile, NoUser, path,
                    sendErrorResponse(message, status, NoErrors))
     IN reqs' = [reqs EXCEPT ![r] =
          IF ~isObjectIdFormat(id)
          THEN done("badid", "Invalid user ID format", 400)
          ELSE IF ~dbUp
          THEN done("throw", "Internal server error while deleting profile image", 500)
          ELSE ImageReq("deleteProfileImage", "found", id, NoFile,
                        findById(id), "", NoResp)]

\* a handler that removes the account together with its image
DeleteProfileImageFinish_mut(r) ==
  /\ reqs[r].op = "deleteProfileImage"
  /\ reqs[r].pc = "found"
  /\ UNCHANGED <<now, processEnv, dbUp, files>>
  /\ users' = [i \in Ids \ {reqs[r].id} |-> users[i]]
  /\ reqs' = [reqs EXCEPT ![r] =
       ImageReq("deleteProfileImage", "done", reqs[r].id, NoFile, reqs[r].user,
                "ok", sendSuccessResponse("Profile image deleted successfully",
                                          NoData, 200))]

\* deleteProfileImage, from the document findById returned to the response
DeleteProfileImageFinish(r) ==
  /\ reqs[r].op = "deleteProfileImage"
  /\ reqs[r].pc = "found"
  /\ UNCHANGED <<now, processEnv, dbUp>>
  /\ LET q == reqs[r]
         user == setField(q.user, "profileImage", <<>>)
         done(path, resp) ==
           ImageReq("deleteProfileImage", "done", q.id, NoFile, q.user, path, resp)
         fail(path, message, status) ==
           done(path, sendErrorResponse(message, status, NoErrors))
     IN IF q.user = NoUser
        THEN /\ reqs' = [reqs EXCEPT ![r] = fail("nouser", "User not found", 404)]
             /\ UNCHANGED <<users, files>>
        ELSE IF ~hasProfileImage(q.user)
        THEN /\ reqs' = [reqs EXCEPT ![r] =
                  fail("noimage", "User does not have a profile image", 400)]
             /\ UNCHANGED <<users, files>>
        ELSE /\ files' = IF existsSync(files, q.user.profileImage)
                         THEN unlinkSync(files, q.user.profileImage) ELSE files
             /\ IF ~dbUp
                THEN /\ reqs' = [reqs EXCEPT ![r] =
                          fail("throw", "Internal server error while deleting profile image", 500)]
                     /\ UNCHANGED users
                ELSE /\ users' = [users EXCEPT ![q.id] = save(@, user, {"profileImage"})]
                     /\ reqs' = [reqs EXCEPT ![r] =
                          done("ok", sendSuccessResponse(
                                 "Profile image deleted successfully", NoData, 200))]

\* the store becomes unreachable, or reachable again
StoreFlips ==
  /\ dbUp' = ~dbUp
  /\ UNCHANGED <<users, reqs, now, files, processEnv>>

\* ------------------------------------------------------------------ inputs
Ada == <<"A","d","a">>
ShortName == <<" ","A">>
ADA_x_com == <<"A","D","A","@","x",".","c","o","m">>
ada_x_com == <<"a","d","a","@","x",".","c","o","m">>
padded_ada_x_com == <<" ">> \o ada_x_com
bob_x_com == <<"b","o","b","@","x",".","c","o","m">>
adax_com == <<"a","d","a","x",".","c","o","m">>
Secret123 == Str(<<"S","e","c","r","e","t","1","2","3">>)
wrong == Str(<<"w","r","o","n","g">>)
NotAString == Num(1234567)
SchemaRoles == {"admin", "mentor", "mentee"}
mia_x_com == <<"m","i","a","@","x",".","c","o","m">>

\* the steps of the clock: a day, and half a second less than the token's
\* validity window
TickSteps == {Day, 3 * Day - Second \div 2}

\* a token with the claims of `token` changed to the admin role, under the
\* signature of the original claims
tamper(token) == [token EXCEPT !.role = "admin"]

\* the claims of `token` signed with a key that is not the server's
resign(token) ==
  setField(claimsOf(token), "sig", signature(claimsOf(token), "not the secret"))

\* a token signed by this server, at this time, for a mentee
MenteeToken ==
  jwtSign([_id |-> 0, email |-> mia_x_com, role |-> "mentee"])

PresentedTokens ==
  IssuedTokens \cup {tamper(t) : t \in IssuedTokens}
    \cup {resign(t) : t \in IssuedTokens}
    \cup {NoToken, Malformed, MenteeToken}

\* a well-formed id that no account has
MissingId == MaxReq + 1

Bob == <<"B","o","b">>
ShortGoal == <<"g","o">>

\* file sizes on either side of the limit
KB == 1024
TooLarge == MAX_IMAGE_SIZE + 1

Routes == {PROFILE_GET, PROFILE_PUT, ADMIN_GET, MENTOR_DASHBOARD, PUBLIC_DATA}

\* ---------------------------------------------------------- specifications
RegisterStep(r, names, emails, passwords, roles) ==
  \/ \E name \in names, email \in emails, password \in passwords, role \in roles :
       RegisterStart(r, name, email, password, role)
  \/ RegisterSave(r)

LoginStep(r, emails, passwords) ==
  \/ \E email \in emails, password \in passwords : LoginStart(r, email, password)
  \/ LoginFinish(r)

UpdateProfileStep(r, users_, ids, names, emails) ==
  \/ \E reqUser \in users_, id \in ids, name \in names, email \in emails :
       UpdateProfileStart(r, reqUser, id, name, email)
  \/ UpdateProfileFinish(r)

EditProfileStep(r, ids, names, emails, bios, skillses, goals) ==
  \/ \E id \in ids, name \in names, email \in emails, bio \in bios,
        skills \in skillses, goal \in goals :
       EditProfileStart(r, id, name, email, bio, skills, goal)
  \/ EditProfileFinish(r)

LegacyStep(r, names, emails, passwords, roles) ==
  \/ \E name \in names, email \in emails, password \in passwords, role \in roles :
       LegacyRegisterStart(r, name, email, password, role)
  \/ LegacyRegisterSave(r)
  \/ \E email \in emails, password \in passwords : LegacyLoginStart(r, email, password)
  \/ LegacyLoginFinish(r)

GuardStep(r, routes, tokens) ==
  \/ \E route \in routes, token \in tokens : Guard(r, route, token)
  \/ Downstream(r)

ProfileRouteStep(r, ids, names, emails, bios, skillses, goals) ==
  \/ \E id \in ids : ProfileGet(r, id)
  \/ \E id \in ids, name \in names, email \in emails, bio \in bios,
        skills \in skillses, goal \in goals :
       ProfilePut(r, id, name, email, bio, skills, goal)
  \/ EditProfileFinish(r)

UploadStep(r, ids, types, sizes, absent) ==
  \/ \E id \in ids,
        file \in {multerFile(r, t, n) : t \in types, n \in sizes} \cup absent :
       UploadProfileImageStart(r, id, file)
  \/ \E id \in ids,
        file \in {multerFile(r, t, n) : t \in types, n \in sizes} \cup absent :
       UploadValidatedStart(r, id, file)
  \/ UploadProfileImageFinish(r)

DeleteStep(r, ids) ==
  \/ \E id \in ids : DeleteProfileImageStart(r, id)
  \/ DeleteProfileImageFinish(r)

\* register and login, concurrently
NextAuth ==
  \E r \in Reqs :
    \/ RegisterStep(r, {Ada}, {ADA_x_com, ada_x_com, padded_ada_x_com},
                    {Secret123}, {Undefined, "admin", "mentee"})
    \/ LoginStep(r, {ada_x_com, padded_ada_x_com, bob_x_com},
                 {Secret123, wrong, NotAString})

SpecAuth == Init /\ [][NextAuth]_vars

\* register and the two profile-edit handlers, concurrently
NextProfile ==
  \E r \in Reqs :
    \/ RegisterStep(r, {Ada}, {ADA_x_com, bob_x_com}, {Secret123}, {"admin", "mentor"})
    \/ UpdateProfileStep(r, IssuedTokens, Ids, {<<>>}, {ADA_x_com, bob_x_com})
    \/ EditProfileStep(r, Ids, {<<>>}, {ADA_x_com, bob_x_com},
                       {<<>>}, {NoSkills}, {<<>>})

SpecProfile == Init /\ [][NextProfile]_vars

\* one register request over the whole range of request bodies
ValReqs == 1..MaxValReq

NextValidate ==
  \E r \in ValReqs :
    RegisterStep(r, {Ada, ShortName, <<>>},
                 {ADA_x_com, padded_ada_x_com, adax_com, <<>>},
                 {Secret123, wrong, NotAString},
                 {Undefined, "admin", "mentor", "mentee", "user", "boss"})

SpecValidate == Init /\ [][NextValidate]_vars

\* register, login and logout while time passes
NextSession ==
  \/ \E r \in Reqs :
       \/ RegisterStep(r, {Ada}, {ADA_x_com}, {Secret123}, {"admin"})
       \/ LoginStep(r, {ada_x_com}, {Secret123, wrong})
       \/ Logout(r)
  \/ \E d \in TickSteps : Tick(d)

SpecSession == Init /\ [][NextSession]_vars

\* requests through the guard to the routes it protects while time passes
GuardReqs == 1..MaxGuardReq

NextGuard ==
  \/ \E r \in GuardReqs :
       \/ RegisterStep(r, {Ada}, {ADA_x_com, bob_x_com}, {Secret123}, {"admin", "mentor"})
       \/ GuardStep(r, Routes, PresentedTokens)
       \/ ProfileRouteStep(r, Ids, {Ada}, {<<>>}, {<<>>}, {NoSkills}, {<<>>})
  \/ Tick(3 * Day)

SpecGuard == Init /\ [][NextGuard]_vars

\* one request of each kind against the credential store: register, login,
\* logout, the profile reads and edits, image upload and image removal
NextLifecycle ==
  \E r \in Reqs :
    \/ RegisterStep(r, {Ada}, {ADA_x_com}, {Secret123}, {"admin"})
    \/ LoginStep(r, {ada_x_com}, {Secret123})
    \/ Logout(r)
    \/ \E id \in Ids : GetUserData(r, id)
    \/ UpdateProfileStep(r, IssuedTokens, Ids, {Ada}, {bob_x_com})
    \/ EditProfileStep(r, Ids, {<<>>}, {bob_x_com}, {<<>>}, {NoSkills}, {<<>>})
    \/ UploadStep(r, Ids, {"image/png"}, {KB}, {})
    \/ DeleteStep(r, Ids)

SpecLifecycle == Init /\ [][NextLifecycle]_vars

\* register in a deployment that may set the signing secret only under the
\* name the earlier controller reads, against a store that may be unreachable
InitDeploy == InitEnv({FullEnv, {JWTSECRETKEY}})

NextDeploy ==
  \/ \E r \in Reqs :
       RegisterStep(r, {Ada}, {ADA_x_com, bob_x_com}, {Secret123}, {"admin", "boss"})
  \/ StoreFlips

SpecDeploy == InitDeploy /\ [][NextDeploy]_vars

\* two accounts and the profile edits of one on behalf of the other:
\* editProfile behind the guard of its route, updateProfile with the identity
\* of an issued token
NextOwner ==
  \E r \in Reqs :
    \/ RegisterStep(r, {Ada}, {ADA_x_com, bob_x_com}, {Secret123}, {"admin", "mentor"})
    \/ GuardStep(r, {PROFILE_GET, PROFILE_PUT, ADMIN_GET}, IssuedTokens \cup {NoToken})
    \/ ProfileRouteStep(r, Ids, {<<>>}, {mia_x_com}, {<<>>}, {NoSkills}, {<<>>})
    \/ UpdateProfileStep(r, {claimsOf(t) : t \in IssuedTokens}, Ids, {<<>>}, {mia_x_com})

SpecOwner == Init /\ [][NextOwner]_vars

\* editProfile over a range of request bodies, with registrations that take
\* the emails the edits ask for
NextEdit ==
  \E r \in Reqs :
    \/ RegisterStep(r, {Ada}, {ADA_x_com, bob_x_com}, {Secret123}, {"admin"})
    \/ EditProfileStep(r, Ids \cup {BadId, MissingId}, {ShortName, Bob},
                       {adax_com, bob_x_com},
                       {<<>>}, {NoSkills}, {<<>>, ShortGoal})

SpecEdit == Init /\ [][NextEdit]_vars

\* register, login and the two profile-edit handlers while time passes
NextRole ==
  \/ \E r \in Reqs :
       \/ RegisterStep(r, {Ada}, {ADA_x_com}, {Secret123}, {"admin", "mentor"})
       \/ LoginStep(r, {ada_x_com, mia_x_com}, {Secret123})
       \/ UpdateProfileStep(r, IssuedTokens, Ids, {<<>>}, {mia_x_com})
       \/ EditProfileStep(r, Ids, {Bob}, {<<>>}, {<<>>}, {NoSkills}, {<<>>})
  \/ Tick(3 * Day)

SpecRole == Init /\ [][NextRole]_vars

\* image uploads and removals, concurrently, for accounts that exist or not,
\* against a store that may be unreachable
NextImage ==
  \/ \E r \in Reqs :
       \/ RegisterStep(r, {Ada}, {ADA_x_com}, {Secret123}, {"admin"})
       \/ UploadStep(r, Ids \cup {BadId, MissingId}, {"image/png", "image/gif"},
                     {KB, TooLarge}, {NoFile})
       \/ DeleteStep(r, Ids \cup {BadId, MissingId})
  \/ StoreFlips

SpecImage == Init /\ [][NextImage]_vars

\* every handler, each on a small range of requests
Next ==
  \E r \in Reqs :
    \/ RegisterStep(r, {Ada}, {ADA_x_com}, {Secret123}, {"admin"})
    \/ LoginStep(r, {ada_x_com, bob_x_com}, {Secret123, wrong})
    \/ \E id \in Reqs \cup {BadId} : GetUserData(r, id)
    \/ \E reqUser \in IssuedTokens \cup {NoReqUser} : GetCurrentUser(r, reqUser)
    \/ UpdateProfileStep(r, IssuedTokens, Ids, {Ada}, {bob_x_com})
    \/ EditProfileStep(r, Ids, {<<>>}, {bob_x_com}, {<<>>}, {NoSkills}, {<<>>})
    \/ LegacyStep(r, {Ada}, {ada_x_com, bob_x_com}, {Secret123, wrong}, {"mentor"})

Spec == Init /\ [][Next]_vars

\* ------------------------------------------------------------ properties
Done(op) == {r \in Reqs : reqs[r].op = op /\ reqs[r].pc = "done"}

\* a register body that is well formed by the account model: a name of two
\* characters or more, a well-formed email, a password of six or more, and
\* a role of the account role enum
WellFormedRegister(q) ==
  /\ Len(trim(q.name)) >= 2
  /\ validateEmail(q.email)
  /\ validatePassword(q.password)
  /\ q.role \in SchemaRoles

\* the store never reported the email of this register request as used
EmailUnused(q) == q.unused /\ q.path # "E11000"

\* C1: for every register request with a well-formed name, email and
\* password, an unused email and a role of the account role enum, a later
\* login with the same email and password succeeds and issues a token whose
\* subject is the id of the account the registration created.
C1_LoginAfterRegister ==
  \A R \in Done("register"), L \in Done("login") :
    ( /\ WellFormedRegister(reqs[R])
      /\ EmailUnused(reqs[R])
      /\ R \in reqs[L].after
      /\ reqs[L].email = reqs[R].email
      /\ reqs[L].password = reqs[R].password )
    => /\ reqs[L].resp.status = 200
       /\ reqs[L].cookie # NoCookie
       /\ reqs[L].cookie.value.sub = reqs[R].created

\* C2: no two distinct accounts of the store have the same email, whatever
\* register, updateProfile and editProfile requests ran and however they
\* interleaved.
C2_EmailUnique ==
  \A i, j \in Ids : i # j => users[i].email # users[j].email

\* C2 witness: two accounts exist and the store refused a profile edit that
\* had passed its pre-check.
C2_Witness ==
  /\ Cardinality(Ids) >= 2
  /\ \E r \in Done("updateProfile") \cup Done("editProfile") :
       reqs[r].path = "E11000"

\* the register requests that passed the pre-check for `email` and ended
RacingRegisters(email) ==
  {r \in Done("register") :
     /\ reqs[r].unused
     /\ reqs[r].hashed # NoDigest
     /\ normalizeEmail(reqs[r].email) = email}

\* C3: of the concurrent register requests with one normalized email that
\* all passed the existence pre-check, exactly one responds 201 and every
\* other responds 409, and exactly one account with that email exists.
C3_RaceResolved ==
  \A e \in {normalizeEmail(reqs[r].email) : r \in Done("register")} :
    Cardinality(RacingRegisters(e)) >= 2
    => /\ Cardinality({r \in RacingRegisters(e) : reqs[r].resp.status = 201}) = 1
       /\ \A r \in RacingRegisters(e) : reqs[r].resp.status \in {201, 409}
       /\ Cardinality({i \in Ids : users[i].email = e}) = 1

\* C4: a register request whose email equals, ignoring case, the email of
\* an existing account responds 409 and leaves the collection as it was.
C4_ConflictNoChange ==
  [][\A r \in Reqs :
       ( /\ reqs[r] = Idle
         /\ reqs'[r].op = "register"
         /\ WellFormedRegister(reqs'[r])
         /\ \E i \in Ids : toLowerCase(users[i].email) = toLowerCase(reqs'[r].email) )
       => /\ reqs'[r].pc = "done"
          /\ reqs'[r].resp.status = 409
          /\ users' = users]_vars

\* the password of this login request is not the one the digest of the
\* account it found was made from
WrongPassword(q) ==
  /\ q.user # NoUser
  /\ ~(q.password.type = "string" /\ q.user.password.of = q.password.val)

\* C5: for login requests with a well-formed email, the response when no
\* account has the email and the response when the account exists but the
\* password is wrong are the same response: status, success flag, message,
\* data, errors and cookie.
C5_SameResponse ==
  \A a, b \in Reqs :
    ( /\ reqs[a].op \in {"login", "legacyLogin"}
      /\ reqs[b].op = reqs[a].op
      /\ reqs[a].pc = "done" /\ reqs[b].pc = "done"
      /\ reqs[a].path = "nouser"
      /\ reqs[b].op = "login" => WrongPassword(reqs[b])
      /\ reqs[b].op = "legacyLogin" => reqs[b].path \in {"badpw", "throw"} )
    => /\ reqs[a].resp = reqs[b].resp
       /\ reqs[a].cookie = reqs[b].cookie

\* the account view a response body carries, if it carries one
BodyUser(resp) ==
  IF "user" \in DOMAIN resp THEN resp.user
  ELSE IF resp.data # NoData THEN resp.data.user
  ELSE NoUser

\* C6: no response body of register, login, getUserData, getCurrentUser,
\* updateProfile or editProfile (or of the earlier controller) holds the
\* password digest of an account.
C6_NoDigestInBody ==
  \A r \in Reqs :
    reqs[r].pc = "done" => "password" \notin DOMAIN BodyUser(reqs[r].resp)

\* C6 witness: responses that carry an account view were sent, one built
\* from the updated document and one from the document of a registration of
\* the earlier controller.
C6_Witness ==
  /\ \E r \in Done("updateProfile") \cup Done("editProfile") : reqs[r].path = "ok"
  /\ \E r \in Done("legacyRegister") :
       reqs[r].path = "created" /\ BodyUser(reqs[r].resp) # NoUser

\* C7: login responds with success or sets a token only if an account with
\* the normalized email exists and the supplied password is the one its
\* stored digest was made from; a verification that fails or throws ends in
\* an error response without a token.
C7_LoginOnlyVerified ==
  \A L \in Done("login") :
    /\ (reqs[L].resp.status = 200 \/ reqs[L].resp.success \/ reqs[L].cookie # NoCookie)
       => /\ reqs[L].user # NoUser
          /\ reqs[L].user.email = normalizeEmail(reqs[L].email)
          /\ reqs[L].password.type = "string"
          /\ WellFormedDigest(reqs[L].user.password)
          /\ reqs[L].user.password.of = reqs[L].password.val
    /\ reqs[L].path \in {"badpw", "throw"}
       => /\ reqs[L].resp.status \in {401, 500}
          /\ ~reqs[L].resp.success
          /\ reqs[L].cookie = NoCookie

\* C7 witness: one login succeeded and another was refused because the
\* verification threw.
C7_Witness ==
  /\ \E L \in Done("login") : reqs[L].path = "ok"
  /\ \E L \in Done("login") : reqs[L].path = "throw"

\* C8: register of name "Ada", email "ADA@x.com", a valid password and a
\* role of the account enum (admin, mentor, mentee) on an unused email
\* responds 201, stores the email as "ada@x.com" and returns no digest.
C8_RegisterExample ==
  \A R \in Done("register") :
    ( /\ reqs[R].name = Ada
      /\ reqs[R].email = ADA_x_com
      /\ validatePassword(reqs[R].password)
      /\ reqs[R].role \in {"admin", "mentor", "mentee"}
      /\ EmailUnused(reqs[R]) )
    => /\ reqs[R].resp.status = 201
       /\ reqs[R].created \in Ids
       /\ users[reqs[R].created].email = ada_x_com
       /\ "password" \notin DOMAIN BodyUser(reqs[R].resp)

Range(f) == {f[k] : k \in DOMAIN f}

ViolatedBy(q) == RegisterViolations(q.name, q.email, q.password, q.role)

C9_FirstMessage(q) ==
  IF \/ Len(trim(q.name)) = 0 \/ Len(trim(q.email)) = 0
     \/ Falsy(q.password) \/ q.role = ""
  THEN "All fields are required"
  ELSE IF ~validateEmail(q.email) THEN "Please provide a valid email address"
  ELSE IF ~validatePassword(q.password)
  THEN "Password must be at least 6 characters long"
  ELSE IF q.role \notin {"user", "admin", "mentor"} THEN "Invalid role specified"
  ELSE "Name must be at least 2 characters long"

C10_NormalizedLookup ==
  /\ \A i \in Ids : users[i].email = trim(toLowerCase(users[i].email))
  /\ \A L \in Done("login"), R \in Done("register") :
       ( /\ R \in reqs[L].after
         /\ reqs[R].created \in Ids
         /\ trim(toLowerCase(reqs[L].email)) = users[reqs[R].created].email )
       => /\ reqs[L].user # NoUser
          /\ reqs[L].user._id = reqs[R].created

\* C11: a successful login sets the stored last-login timestamp of the
\* account to the time of the login and changes no other stored field, and
\* a getUserData of the account after the login returns a timestamp.
C11_LastLoginStored ==
  [][\A r \in Reqs :
       /\ ( /\ reqs[r].op = "login" /\ reqs[r].pc = "compare"
            /\ reqs'[r].pc = "done" /\ reqs'[r].path = "ok" )
          => users' = [users EXCEPT ![reqs[r].user._id] =
                         setField(@, "lastLoginAt", now)]
       /\ ( /\ reqs[r] = Idle
            /\ reqs'[r].op = "getUserData" /\ reqs'[r].path = "ok"
            /\ \E L \in Done("login") :
                 /\ reqs[L].path = "ok"
                 /\ reqs[L].user._id = BodyUser(reqs'[r].resp).id )
          => BodyUser(reqs'[r].resp).lastLoginAt # Undefined]_vars

\* C12: a logout request changes no document of the collection and no
\* other request; its only effect is its own response, which reports success
\* and clears the token cookie.
C12_LogoutFrame ==
  [][\A r \in Reqs :
       (reqs[r] = Idle /\ reqs'[r].op = "logout")
       => /\ users' = users
          /\ \A q \in Reqs \ {r} : reqs'[q] = reqs[q]
          /\ reqs'[r].pc = "done"
          /\ reqs'[r].resp.status = 200
          /\ reqs'[r].resp.success
          /\ reqs'[r].cookie.name = "token"
          /\ reqs'[r].cookie.value = <<>>
          /\ reqs'[r].cookie.expires <= Second]_vars

\* C12 witness: a logout was answered after a successful login, with the
\* account in the store.
C12_Witness ==
  \E r \in Done("logout"), L \in Done("login") :
    /\ L \in reqs[r].after
    /\ reqs[L].path = "ok"
    /\ reqs[L].user._id \in Ids

\* the requests that issued a token: a register or login that set the cookie
Issuers ==
  {q \in Done("register") \cup Done("login") : reqs[q].cookie # NoCookie}

Unexpired(token) == now \div Second < token.exp

\* C13: in every state, whatever logins and logouts of the same account
\* came after it, a token issued by a register or login is accepted with its
\* own claims until its own expiry, so several tokens of one account are
\* valid at once.
C13_TokensIndependent ==
  \A q \in Issuers :
    Unexpired(reqs[q].cookie.value)
    => authorize(reqs[q].cookie.value, NoRoles)
         = Valid(claimsOf(reqs[q].cookie.value))

\* C13 witness: two different tokens of one account are both accepted, and
\* a logout came between the two.
C13_Witness ==
  \E a, c \in Issuers, b \in Done("logout") :
    /\ a \in reqs[b].after
    /\ reqs[c].op = "login" /\ b \in reqs[c].after
    /\ reqs[a].cookie.value # reqs[c].cookie.value
    /\ reqs[a].cookie.value.sub = reqs[c].cookie.value.sub
    /\ authorize(reqs[a].cookie.value, NoRoles).ok
    /\ authorize(reqs[c].cookie.value, NoRoles).ok

\* C14: verify of an issued token returns the id, email and role it was
\* issued for while less than three days have passed since it was issued,
\* and EXPIRED from then on, also for a copy with an invalid signature.
C14_VerifyRoundTrip ==
  \A q \in Issuers :
    LET t == reqs[q].cookie.value
        u == BodyUser(reqs[q].resp)
    IN IF now \div Second < t.iat + 3 * 24 * 60 * 60
       THEN /\ verify(t).ok
            /\ verify(t).claims.sub = u.id
            /\ verify(t).claims.id = u.id
            /\ verify(t).claims.email = u.email
            /\ verify(t).claims.role = u.role
       ELSE /\ verify(t) = Failure("EXPIRED")
            /\ verify(tamper(t)) = Failure("EXPIRED")
            /\ verify(resign(t)) = Failure("EXPIRED")

\* C14 witness: one issued token has expired and another is still valid.
C14_Witness ==
  \E a, b \in Issuers :
    /\ ~Unexpired(reqs[a].cookie.value)
    /\ Unexpired(reqs[b].cookie.value)
    /\ verify(reqs[b].cookie.value).ok

\* the requests the guard has answered or passed on and whose handler has
\* not started
InGuard == {r \in Reqs : reqs[r].op = "guard"}

\* the token a request presented was well formed, signed by this server and
\* unexpired when the guard saw it
GoodToken(g) ==
  /\ g.token # NoToken
  /\ g.token # Malformed
  /\ g.token.sig = signature(claimsOf(g.token), JWT_SECRET_KEY)
  /\ g.at \div Second < g.token.exp

\* C15: for a valid, unexpired token authorize answers FORBIDDEN exactly
\* when the route requires roles and the token's role claim is not among
\* them, and the token's claims otherwise; on the admin route a mentee is
\* FORBIDDEN and an admin passes.
C15_RoleCheck ==
  \A r \in InGuard :
    LET g == reqs[r]
        required == CASE g.route = ADMIN_GET -> {"admin"}
                      [] g.route = MENTOR_DASHBOARD -> {"mentor", "admin"}
                      [] OTHER -> {"admin", "mentor", "mentee", "user"}
    IN GoodToken(g)
       => /\ (g.result = Failure("FORBIDDEN")) <=> (g.token.role \notin required)
          /\ g.token.role \in required => g.result = Valid(claimsOf(g.token))
          /\ (g.route = ADMIN_GET /\ g.token.role = "mentee")
               => g.result = Failure("FORBIDDEN")
          /\ (g.route = ADMIN_GET /\ g.token.role = "admin") => g.result.ok

\* C15 witness: the token a register issued to a mentor was FORBIDDEN on
\* the admin route.
C15_Witness ==
  \E r \in InGuard :
    /\ reqs[r].route = ADMIN_GET
    /\ reqs[r].token \in IssuedTokens
    /\ GoodToken(reqs[r])
    /\ reqs[r].result = Failure("FORBIDDEN")

\* C16: in required mode a request whose token is missing, malformed,
\* wrongly signed or expired is answered UNAUTHENTICATED (401) whatever role
\* the route requires and the token claims; it gets neither FORBIDDEN nor an
\* identity.
C16_Unauthenticated ==
  \A r \in InGuard :
    (reqs[r].route # PUBLIC_DATA /\ ~GoodToken(reqs[r]))
    => /\ reqs[r].result = Failure("UNAUTHENTICATED")
       /\ reqs[r].pc = "done"
       /\ reqs[r].resp.status = 401
       /\ reqs[r].user = NoReqUser

\* C16 witness: a token with a role the admin route does not accept and a
\* signature of another key was answered UNAUTHENTICATED on the admin route.
C16_Witness ==
  \E r \in InGuard :
    /\ reqs[r].route = ADMIN_GET
    /\ reqs[r].token \notin {NoToken, Malformed}
    /\ reqs[r].token.role # "admin"
    /\ ~GoodToken(reqs[r])
    /\ reqs[r].result = Failure("UNAUTHENTICATED")

HandlerOps == {"editProfile", "profileGetUserData", "handler"}

\* C17: on a route guarded in required mode a handler starts only from a
\* request whose authorize succeeded; a request the guard answered is
\* answered with 401 or 403, is never handed to a handler, and the step that
\* answers it leaves the collection unchanged.
C17_GuardShortCircuits ==
  [][\A r \in Reqs :
       /\ ( /\ reqs'[r].op \in HandlerOps
            /\ reqs[r].op \notin HandlerOps
            /\ reqs'[r].op = "handler" => reqs'[r].route # PUBLIC_DATA )
          => /\ reqs[r].op = "guard"
             /\ reqs[r].pc = "next"
             /\ GoodToken(reqs[r])
             /\ reqs[r].result.ok
       /\ (reqs[r].op = "guard" /\ reqs[r].pc = "done") => reqs'[r] = reqs[r]
       /\ (reqs[r] = Idle /\ reqs'[r].op = "guard" /\ reqs'[r].pc = "done")
          => /\ users' = users
             /\ ~reqs'[r].result.ok
             /\ reqs'[r].resp.status \in {401, 403}]_vars

\* C17 witness: with an account in the store the guard answered a request
\* to the profile update route that carried a token of that account with a
\* changed role.
C17_Witness ==
  \E r \in InGuard :
    /\ reqs[r].route = PROFILE_PUT
    /\ reqs[r].pc = "done"
    /\ reqs[r].token \notin {NoToken, Malformed}
    /\ reqs[r].token.sub \in Ids

\* C18: in optional mode the guard never answers the request itself: it
\* passes every request on, with the token's claims as identity exactly when
\* the token is present and valid, and with no identity otherwise.
C18_OptionalPasses ==
  \A r \in InGuard :
    reqs[r].route = PUBLIC_DATA
    => /\ reqs[r].pc = "next"
       /\ reqs[r].resp = NoResp
       /\ (reqs[r].user # NoReqUser) <=> GoodToken(reqs[r])
       /\ GoodToken(reqs[r]) => reqs[r].user = claimsOf(reqs[r].token)

\* C18 witness: a request with a wrongly signed token was passed on
\* anonymously in optional mode.
C18_Witness ==
  \E r \in InGuard :
    /\ reqs[r].route = PUBLIC_DATA
    /\ reqs[r].token \notin {NoToken, Malformed}
    /\ ~GoodToken(reqs[r])
    /\ reqs[r].pc = "next"
    /\ reqs[r].user = NoReqUser

\* C19: register and login set the token cookie exactly when they answer
\* 201, respectively 200; no error response sets it; and the cookie lives
\* as long as the token it carries is valid, three days.
C19_CookieOnSuccess ==
  \A q \in Done("register") \cup Done("login") :
    LET created == reqs[q].resp.status = (IF reqs[q].op = "register" THEN 201 ELSE 200)
    IN /\ (reqs[q].cookie # NoCookie) <=> created
       /\ ~reqs[q].resp.success => reqs[q].cookie = NoCookie
       /\ reqs[q].cookie # NoCookie
          => /\ reqs[q].cookie.name = "token"
             /\ reqs[q].cookie.maxAge
                  = (reqs[q].cookie.value.exp - reqs[q].cookie.value.iat) * Second
             /\ reqs[q].cookie.maxAge = 3 * Day

\* C19 witness: a register set the cookie with its 201, and a login that
\* found the account was answered with an error and without a cookie.
C19_Witness ==
  /\ \E q \in Done("register") :
       reqs[q].resp.status = 201 /\ reqs[q].cookie # NoCookie
  /\ \E q \in Done("login") :
       reqs[q].user # NoUser /\ reqs[q].resp.status >= 400

\* the paths of register and login on which the store, the hasher or the
\* signer failed
FailurePaths == {"E11000", "ValidationError", "throw"}

\* C20: a failure of the store, the hasher or the signer in register or
\* login is answered once: 409 for a unique-constraint violation, 500 with a
\* generic message and no detail for every other failure.
C20_FailuresMapped ==
  \A q \in Reqs :
    reqs[q].op \in {"register", "login"}
    => /\ (reqs[q].pc = "done") <=> (reqs[q].resp # NoResp)
       /\ (reqs[q].pc = "done" /\ reqs[q].path = "E11000")
          => reqs[q].resp.status = 409
       /\ (reqs[q].pc = "done" /\ reqs[q].path \in FailurePaths \ {"E11000"})
          => /\ reqs[q].resp.status = 500
             /\ reqs[q].resp.errors = NoErrors
             /\ reqs[q].resp.data = NoData

\* C21: accounts are created only by register and never removed: no step of
\* register, login, logout, a profile read, a profile edit, an image upload
\* or an image removal takes an id out of the credential store, and only a
\* register request adds one.
C21_AccountsNeverRemoved ==
  [][ /\ \A id \in Ids : id \in DOMAIN users'
      /\ \A id \in DOMAIN users' : id \notin Ids => reqs'[id].op = "register" ]_vars

\* an account that has been through an image upload and an image removal
C21_Witness ==
  \E u, d \in Reqs :
    /\ reqs[u].op = "uploadProfileImage" /\ reqs[u].pc = "done"
    /\ reqs[u].path = "ok"
    /\ reqs[d].op = "deleteProfileImage" /\ reqs[d].pc = "done"
    /\ reqs[d].id = reqs[u].id /\ reqs[d].id \in Ids

\* C22: register persists an account if and only if it responds 201: the
\* account of an answered register request is in the store exactly when the
\* response is 201, so after an error response (400, 409 or 500), also one
\* caused by a step after the save such as token signing, the store holds no
\* account persisted by that request.
C22_PersistedIffCreated ==
  \A r \in Reqs :
    (reqs[r].op = "register" /\ reqs[r].pc = "done")
    => ((r \in Ids) <=> (reqs[r].resp.status = 201))

\* C23: every role that passes register's role validation, the default of a
\* request without a role included, is a value of the store's role enum, so
\* a register request that passed the controller's validation with an
\* unused email is never rejected by the schema validation of save().
C23_ValidatedRoleStored ==
  \A r \in Reqs :
    ( /\ reqs[r].op = "register"
      /\ registerValidate(reqs[r].name, reqs[r].email, reqs[r].password,
                          reqs[r].role) = "ok"
      /\ reqs[r].unused )
    => /\ reqs[r].role \in SchemaRoleEnum
       /\ reqs[r].pc = "done" => reqs[r].path # "ValidationError"

EditOps == {"updateProfile", "editProfile"}

\* the request was made by an authenticated account that is neither the
\* account it names nor an admin
Stranger(q) ==
  /\ q.user # NoReqUser
  /\ q.user.id # q.id
  /\ q.user.role # ROLES.ADMIN

\* C24: a profile update is applied to account X only when the authenticated
\* requester is X or an admin: every step of updateProfile and of editProfile
\* on a request of any other authenticated account answers 403 and leaves
\* the store unchanged.
C24_OwnerOrAdmin ==
  [][\A r \in Reqs :
       ( /\ reqs'[r] # reqs[r]
         /\ reqs'[r].op \in EditOps
         /\ Stranger(reqs'[r]) )
       => /\ reqs'[r].pc = "done"
          /\ reqs'[r].resp.status = 403
          /\ users' = users]_vars

\* updateProfile refused the edit of another account's profile
C24_UpdateProfileRefuses ==
  \E r \in Done("updateProfile") :
    Stranger(reqs[r]) /\ reqs[r].resp.status = 403 /\ reqs[r].id \in Ids

\* editProfile applied the edit of another account's profile
C24_EditProfileApplies ==
  \E r \in Done("editProfile") :
    /\ Stranger(reqs[r]) /\ reqs[r].path = "ok"
    /\ users[reqs[r].id].email = mia_x_com

\* the fields of an editProfile request that fail their validation
FailedFields(q) ==
  {f \in Range(EditRuleOrder) :
     EditRuleViolated(f, q.body.name, q.body.email, q.body.bio, q.body.skills,
                      q.body.goal)}

\* the email the request asks for is the email of another account
EmailOfAnother(q) ==
  /\ Len(trim(q.body.email)) > 0
  /\ \E i \in Ids : i # q.id /\ users[i].email = normalizeEmail(q.body.email)

\* the step in which editProfile answers request r
EditAnswered(r) ==
  /\ reqs'[r] # reqs[r]
  /\ reqs'[r].op = "editProfile"
  /\ reqs'[r].pc = "done"

\* what C25 says of the step that answers request r
AllOrNothing(r) ==
  /\ FailedFields(reqs'[r]) # {}
     => /\ reqs'[r].resp.status = 400
        /\ Range(reqs'[r].resp.errors)
             = {EditRuleMessage(f) : f \in FailedFields(reqs'[r])}
        /\ users' = users
  /\ (FailedFields(reqs'[r]) = {} /\ EmailOfAnother(reqs'[r]))
     => /\ reqs'[r].resp.status = 409
        /\ users' = users

C26_RoleFixed ==
  /\ \A r \in Done("register") : r \in Ids => users[r].role = reqs[r].role
  /\ \A q \in Issuers :
       Unexpired(reqs[q].cookie.value)
       => /\ reqs[q].cookie.value.id \in Ids
          /\ reqs[q].cookie.value.role = users[reqs[q].cookie.value.id].role

\* a mentor's token that is still valid after a profile edit of the account
C26_Witness ==
  \E q \in Issuers, e \in Done("updateProfile") \cup Done("editProfile") :
    /\ Unexpired(reqs[q].cookie.value)
    /\ reqs[q].cookie.value.role = ROLES.MENTOR
    /\ reqs[e].path = "ok"
    /\ reqs[e].id = reqs[q].cookie.value.id
    /\ e > q
    /\ now > 0

\* C27: whenever the stored profileImage of an account is non-empty, the
\* file it names is in the upload directory, whatever uploads and removals
\* ran, interleaved, and whichever of their saves failed.
C27_ImageFileExists ==
  \A u \in Ids :
    hasProfileImage(users[u]) => existsSync(files, users[u].profileImage)

\* no stored document has a profileImage
C27_NeverStored == \A u \in Ids : ~hasProfileImage(users[u])

\* C28: no uploaded file is left orphaned: once an uploadProfileImage
\* request is answered, the file it received is on disk only if the answer
\* is a success and the stored profileImage of the account names that file.
C28_NoOrphanFile ==
  \A r \in Done("uploadProfileImage") :
    (reqs[r].file # NoFile /\ existsSync(files, reqs[r].file.filename))
    => /\ reqs[r].resp.status = 200
       /\ hasProfileImage(users[reqs[r].id])
       /\ users[reqs[r].id].profileImage = reqs[r].file.filename

\* C28 on the requests that were answered with an error other than the
\* malformed id: the received file is gone
C28_RemovedOnError ==
  \A r \in Done("uploadProfileImage") :
    reqs[r].path \in {"type", "size", "nouser", "throw", "FILE_SIZE_EXCEEDED"}
    => ~existsSync(files, reqs[r].file.filename)
====
